---- MODULE Spec2Model ----
(***************************************************************************)
(* Grapheme cluster segmentation of github.com/charlievieth/uniseg          *)
(* (grapheme.go): the transition table, transitionGraphemeState, the        *)
(* Graphemes iterator and the resumable functions firstGraphemeCluster and  *)
(* firstGraphemeClusterInString.  Strings and byte slices are sequences of  *)
(* bytes (0..255), rune slices are sequences of integers; Go's 0-based      *)
(* index i is element i+1 of the sequence.                                  *)
(***************************************************************************)
EXTENDS Integers, Sequences, FiniteSets, TLC

\* ------------------------------------------------------------------ bounds
\* Longest input of the iterator specification, counted in units (a unit is
\* one encoded code point or one malformed byte group).
MaxLen == 3

\* --------------------------------------------------------- parser states
grAny == 0
grCR == 1
grControlLF == 2
grL == 3
grLVV == 4
grLVTT == 5
grPrepend == 6
grExtendedPictographic == 7
grExtendedPictographicZWJ == 8
grRIOdd == 9
grRIEven == 10

States == grAny..grRIEven

grNoBoundary == 0
grBoundary == 1

\* ------------------------------------------------------ property classes
\* The property classes of properties.go.
prAny == "Any"
prPrepend == "Prepend"
prCR == "CR"
prLF == "LF"
prControl == "Control"
prExtend == "Extend"
prRegionalIndicator == "RegionalIndicator"
prSpacingMark == "SpacingMark"
prL == "L"
prV == "V"
prT == "T"
prLV == "LV"
prLVT == "LVT"
prZWJ == "ZWJ"
prExtendedPictographic == "ExtendedPictographic"

Properties ==
  { prAny, prPrepend, prCR, prLF, prControl, prExtend, prRegionalIndicator,
    prSpacingMark, prL, prV, prT, prLV, prLVT, prZWJ, prExtendedPictographic }

\* One code point of every class (Unicode 14 GraphemeBreakProperty.txt and
\* emoji-data.txt); every other code point is of class Any.
property(r) ==
  CASE r = 13 -> prCR                       \* U+000D
    [] r = 10 -> prLF                       \* U+000A
    [] r = 9 -> prControl                   \* U+0009
    [] r = 776 -> prExtend                  \* U+0308
    [] r = 8205 -> prZWJ                    \* U+200D
    [] r = 127462 -> prRegionalIndicator    \* U+1F1E6
    [] r = 169 -> prExtendedPictographic    \* U+00A9
    [] r = 1536 -> prPrepend                \* U+0600
    [] r = 2307 -> prSpacingMark            \* U+0903
    [] r = 4352 -> prL                      \* U+1100
    [] r = 4448 -> prV                      \* U+1160
    [] r = 4520 -> prT                      \* U+11A8
    [] r = 44032 -> prLV                    \* U+AC00
    [] r = 44033 -> prLVT                   \* U+AC01
    [] OTHER -> prAny

\* ------------------------------------------------------ transition table
grTransitions ==
  \* GB5
     (<<grAny, prCR>> :> <<grCR, grBoundary, 50>>)
  @@ (<<grAny, prLF>> :> <<grControlLF, grBoundary, 50>>)
  @@ (<<grAny, prControl>> :> <<grControlLF, grBoundary, 50>>)
  \* GB4
  @@ (<<grCR, prAny>> :> <<grAny, grBoundary, 40>>)
  @@ (<<grControlLF, prAny>> :> <<grAny, grBoundary, 40>>)
  \* GB3
  @@ (<<grCR, prLF>> :> <<grAny, grNoBoundary, 30>>)
  \* GB6
  @@ (<<grAny, prL>> :> <<grL, grBoundary, 9990>>)
  @@ (<<grL, prL>> :> <<grL, grNoBoundary, 60>>)
  @@ (<<grL, prV>> :> <<grLVV, grNoBoundary, 60>>)
  @@ (<<grL, prLV>> :> <<grLVV, grNoBoundary, 60>>)
  @@ (<<grL, prLVT>> :> <<grLVTT, grNoBoundary, 60>>)
  \* GB7
  @@ (<<grAny, prLV>> :> <<grLVV, grBoundary, 9990>>)
  @@ (<<grAny, prV>> :> <<grLVV, grBoundary, 9990>>)
  @@ (<<grLVV, prV>> :> <<grLVV, grNoBoundary, 70>>)
  @@ (<<grLVV, prT>> :> <<grLVTT, grNoBoundary, 70>>)
  \* GB8
  @@ (<<grAny, prLVT>> :> <<grLVTT, grBoundary, 9990>>)
  @@ (<<grAny, prT>> :> <<grLVTT, grBoundary, 9990>>)
  @@ (<<grLVTT, prT>> :> <<grLVTT, grNoBoundary, 80>>)
  \* GB9
  @@ (<<grAny, prExtend>> :> <<grAny, grNoBoundary, 90>>)
  @@ (<<grAny, prZWJ>> :> <<grAny, grNoBoundary, 90>>)
  \* GB9a
  @@ (<<grAny, prSpacingMark>> :> <<grAny, grNoBoundary, 91>>)
  \* GB9b
  @@ (<<grAny, prPrepend>> :> <<grPrepend, grBoundary, 9990>>)
  @@ (<<grPrepend, prAny>> :> <<grAny, grNoBoundary, 92>>)
  \* GB11
  @@ (<<grAny, prExtendedPictographic>> :> <<grExtendedPictographic, grBoundary, 9990>>)
  @@ (<<grExtendedPictographic, prExtend>> :> <<grExtendedPictographic, grNoBoundary, 110>>)
  @@ (<<grExtendedPictographic, prZWJ>> :> <<grExtendedPictographicZWJ, grNoBoundary, 110>>)
  @@ (<<grExtendedPictographicZWJ, prExtendedPictographic>> :> <<grExtendedPictographic, grNoBoundary, 110>>)
  \* GB12 / GB13
  @@ (<<grAny, prRegionalIndicator>> :> <<grRIOdd, grBoundary, 9990>>)
  @@ (<<grRIOdd, prRegionalIndicator>> :> <<grRIEven, grNoBoundary, 120>>)
  @@ (<<grRIEven, prRegionalIndicator>> :> <<grRIOdd, grBoundary, 120>>)

\* The lookups of transitionGraphemeState made in a table other than
\* grTransitions.
transitionIn(table, state, r) ==
  LET nextProperty == property(r)
      key == <<state, nextProperty>>
      keyAnyProp == <<state, prAny>>
      keyAnyState == <<grAny, nextProperty>>
      okAnyProp == keyAnyProp \in DOMAIN table
      okAnyState == keyAnyState \in DOMAIN table
  IN  IF key \in DOMAIN table
        THEN <<table[key][1], table[key][2] = grBoundary>>
      ELSE IF okAnyProp /\ okAnyState
        THEN LET transAnyProp == table[keyAnyProp]
                 transAnyState == table[keyAnyState]
             IN  <<transAnyState[1],
                   IF transAnyProp[3] < transAnyState[3]
                     THEN transAnyProp[2] = grBoundary
                     ELSE transAnyState[2] = grBoundary>>
      ELSE IF okAnyProp
        THEN <<table[keyAnyProp][1], table[keyAnyProp][2] = grBoundary>>
      ELSE IF okAnyState
        THEN <<table[keyAnyState][1], table[keyAnyState][2] = grBoundary>>
      ELSE <<grAny, TRUE>>

\* The table with {grRIOdd, prRegionalIndicator} staying in grRIOdd: the
\* parity of a run of regional indicators is not kept.
transitionGraphemeStateRIStaysOdd(state, r) ==
  transitionIn((<<grRIOdd, prRegionalIndicator>> :> <<grRIOdd, grNoBoundary, 120>>)
                 @@ grTransitions, state, r)

\* The table without {grExtendedPictographic, prExtend}: an Extend after a
\* pictograph is handled by GB9 alone and the pictograph is forgotten.
transitionGraphemeStateNoPictographicExtend(state, r) ==
  transitionIn([k \in DOMAIN grTransitions \ {<<grExtendedPictographic, prExtend>>}
                  |-> grTransitions[k]], state, r)

\* The table without {grAny, prSpacingMark} (GB9a).
transitionGraphemeStateNoGB9a(state, r) ==
  transitionIn([k \in DOMAIN grTransitions \ {<<grAny, prSpacingMark>>}
                  |-> grTransitions[k]], state, r)

\* The table without {grPrepend, prAny} (GB9b).
transitionGraphemeStateNoGB9b(state, r) ==
  transitionIn([k \in DOMAIN grTransitions \ {<<grPrepend, prAny>>}
                  |-> grTransitions[k]], state, r)

\* The lookups with the new state taken from the {state, prAny} entry when
\* both less specific entries are found.
transitionGraphemeStateMixesState(state, r) ==
  LET nextProperty == property(r)
      key == <<state, nextProperty>>
      keyAnyProp == <<state, prAny>>
      keyAnyState == <<grAny, nextProperty>>
      okAnyProp == keyAnyProp \in DOMAIN grTransitions
      okAnyState == keyAnyState \in DOMAIN grTransitions
  IN  IF key \in DOMAIN grTransitions
        THEN <<grTransitions[key][1], grTransitions[key][2] = grBoundary>>
      ELSE IF okAnyProp /\ okAnyState
        THEN LET transAnyProp == grTransitions[keyAnyProp]
                 transAnyState == grTransitions[keyAnyState]
             IN  <<transAnyProp[1],
                   IF transAnyProp[3] < transAnyState[3]
                     THEN transAnyProp[2] = grBoundary
                     ELSE transAnyState[2] = grBoundary>>
      ELSE IF okAnyProp
        THEN <<grTransitions[keyAnyProp][1], grTransitions[keyAnyProp][2] = grBoundary>>
      ELSE IF okAnyState
        THEN <<grTransitions[keyAnyState][1], grTransitions[keyAnyState][2] = grBoundary>>
      ELSE <<grAny, TRUE>>

\* The return statement a lookup in the given table leaves through.
transitionBranchIn(table, state, r) ==
  LET nextProperty == property(r)
      key == <<state, nextProperty>>
      okAnyProp == <<state, prAny>> \in DOMAIN table
      okAnyState == <<grAny, nextProperty>> \in DOMAIN table
  IN  IF key \in DOMAIN table THEN "specific"
      ELSE IF okAnyProp /\ okAnyState THEN "both"
      ELSE IF okAnyProp THEN "anyProp"
      ELSE IF okAnyState THEN "anyState"
      ELSE "none"

\* The table without {grAny, prRegionalIndicator}.
transitionBranchNoAnyRI(state, r) ==
  transitionBranchIn([k \in DOMAIN grTransitions \ {<<grAny, prRegionalIndicator>>}
                        |-> grTransitions[k]], state, r)

\* The return statement of transitionGraphemeState that is reached: the
\* specific transition, the mix of both less specific ones, the one for the
\* state alone, the one for the property alone, or none (GB999).
transitionBranch(state, r) ==
  LET nextProperty == property(r)
      key == <<state, nextProperty>>
      okAnyProp == <<state, prAny>> \in DOMAIN grTransitions
      okAnyState == <<grAny, nextProperty>> \in DOMAIN grTransitions
  IN  IF key \in DOMAIN grTransitions THEN "specific"
      ELSE IF okAnyProp /\ okAnyState THEN "both"
      ELSE IF okAnyProp THEN "anyProp"
      ELSE IF okAnyState THEN "anyState"
      ELSE "none"

\* The way the table is queried according to the comment on grTransitions,
\* steps 1 to 6, for a state and a property.
DocumentedQuery(state, p) ==
  LET T == grTransitions
      found1 == <<state, p>> \in DOMAIN T
      found2 == <<state, prAny>> \in DOMAIN T
      found3 == <<grAny, p>> \in DOMAIN T
      t2 == T[<<state, prAny>>]
      t3 == T[<<grAny, p>>]
  IN  CASE found1 -> <<T[<<state, p>>][1], T[<<state, p>>][2] = grBoundary>>
        [] ~found1 /\ found2 /\ ~found3 -> <<t2[1], t2[2] = grBoundary>>
        [] ~found1 /\ ~found2 /\ found3 -> <<t3[1], t3[2] = grBoundary>>
        [] ~found1 /\ found2 /\ found3 ->
             <<t3[1], (IF t2[3] < t3[3] THEN t2[2] ELSE t3[2]) = grBoundary>>
        [] OTHER -> <<grAny, TRUE>>

\* transitionGraphemeState: <<newState, boundary>> for the current state and
\* the next code point.
transitionGraphemeState(state, r) ==
  LET nextProperty == property(r)
      key == <<state, nextProperty>>
      keyAnyProp == <<state, prAny>>
      keyAnyState == <<grAny, nextProperty>>
      okAnyProp == keyAnyProp \in DOMAIN grTransitions
      okAnyState == keyAnyState \in DOMAIN grTransitions
  IN  IF key \in DOMAIN grTransitions
        THEN <<grTransitions[key][1], grTransitions[key][2] = grBoundary>>
      ELSE IF okAnyProp /\ okAnyState
        THEN LET transAnyProp == grTransitions[keyAnyProp]
                 transAnyState == grTransitions[keyAnyState]
             IN  <<transAnyState[1],
                   IF transAnyProp[3] < transAnyState[3]
                     THEN transAnyProp[2] = grBoundary
                     ELSE transAnyState[2] = grBoundary>>
      ELSE IF okAnyProp
        THEN <<grTransitions[keyAnyProp][1], grTransitions[keyAnyProp][2] = grBoundary>>
      ELSE IF okAnyState
        THEN <<grTransitions[keyAnyState][1], grTransitions[keyAnyState][2] = grBoundary>>
      ELSE <<grAny, TRUE>>

\* ------------------------------------------------------- unicode/utf8
RuneError == 65533
MaxRune == 1114111
surrogateMin == 55296
surrogateMax == 57343
nil == <<>>

ValidRune(r) == 0 <= r /\ r <= MaxRune /\ ~(surrogateMin <= r /\ r <= surrogateMax)

\* utf8.RuneLen: the bytes needed to encode r, -1 if r cannot be encoded.
RuneLen(r) ==
  IF r < 0 THEN -1
  ELSE IF r < 128 THEN 1
  ELSE IF r < 2048 THEN 2
  ELSE IF surrogateMin <= r /\ r <= surrogateMax THEN -1
  ELSE IF r < 65536 THEN 3
  ELSE IF r <= MaxRune THEN 4
  ELSE -1

\* The conversion string(rune): a rune that cannot be encoded becomes U+FFFD.
EncodeRune(r) ==
  IF ~ValidRune(r) THEN <<239, 191, 189>>
  ELSE IF r < 128 THEN <<r>>
  ELSE IF r < 2048 THEN <<192 + (r \div 64), 128 + (r % 64)>>
  ELSE IF r < 65536
    THEN <<224 + (r \div 4096), 128 + ((r \div 64) % 64), 128 + (r % 64)>>
  ELSE <<240 + (r \div 262144), 128 + ((r \div 4096) % 64),
         128 + ((r \div 64) % 64), 128 + (r % 64)>>

\* The conversion string([]rune).
RECURSIVE StringOfRunes(_)
StringOfRunes(rs) ==
  IF rs = <<>> THEN <<>> ELSE EncodeRune(Head(rs)) \o StringOfRunes(Tail(rs))

\* utf8.DecodeRune: the first rune of p and its width; a malformed or
\* truncated encoding decodes as (RuneError, 1), an empty p as (RuneError, 0).
DecodeRune(p) ==
  IF Len(p) < 1 THEN [r |-> RuneError, size |-> 0]
  ELSE LET p0 == p[1]
           n == Len(p)
           sz == IF p0 < 224 THEN 2 ELSE IF p0 < 240 THEN 3 ELSE 4
           lo == IF p0 = 224 THEN 160 ELSE IF p0 = 240 THEN 144 ELSE 128
           hi == IF p0 = 237 THEN 159 ELSE IF p0 = 244 THEN 143 ELSE 191
           bad == [r |-> RuneError, size |-> 1]
       IN  IF p0 < 128 THEN [r |-> p0, size |-> 1]
           ELSE IF p0 < 194 \/ p0 > 244 THEN bad
           ELSE IF n < sz THEN bad
           ELSE IF p[2] < lo \/ hi < p[2] THEN bad
           ELSE IF sz <= 2 THEN [r |-> (p0 % 32) * 64 + (p[2] % 64), size |-> 2]
           ELSE IF p[3] < 128 \/ 191 < p[3] THEN bad
           ELSE IF sz <= 3
             THEN [r |-> (p0 % 16) * 4096 + (p[2] % 64) * 64 + (p[3] % 64),
                   size |-> 3]
           ELSE IF p[4] < 128 \/ 191 < p[4] THEN bad
           ELSE [r |-> (p0 % 8) * 262144 + (p[2] % 64) * 4096
                        + (p[3] % 64) * 64 + (p[4] % 64),
                 size |-> 4]

\* utf8.DecodeRuneInString: DecodeRune for a string.
DecodeRuneInString(s) == DecodeRune(s)

\* b[from:] of a byte slice or string.
SliceFrom(b, from) == SubSeq(b, from + 1, Len(b))

\* "for pos, r := range s": the (pos, r) pairs of the ranged string.
RECURSIVE RangeString(_, _)
RangeString(s, pos) ==
  IF pos >= Len(s) THEN <<>>
  ELSE LET d == DecodeRuneInString(SliceFrom(s, pos))
       IN  <<[pos |-> pos, r |-> d.r]>> \o RangeString(s, pos + d.size)

\* utf8.RuneCountInString.
RuneCountInString(s) == Len(RangeString(s, 0))

\* ------------------------------------------------------------ Graphemes
\* A Graphemes value: codePoints, indices (len(codePoints)+1 byte offsets),
\* start, end, pos, state.

\* The struct literal of the constructors: every other field is zero.
Graphemes(codePoints, indices) ==
  [codePoints |-> codePoints, indices |-> indices,
   start |-> 0, end |-> 0, pos |-> 0, state |-> 0]

\* NextLoop with the loop bound "g.pos < len(g.codePoints)": the step that
\* closes the last cluster at the end of the text (GB2) is never taken.
RECURSIVE NextLoopNoGB2(_)
NextLoopNoGB2(g) ==
  IF g.pos < Len(g.codePoints)
    THEN LET t == transitionGraphemeState(g.state, g.codePoints[g.pos + 1])
             g1 == [g EXCEPT !.state = t[1]]
         IN  IF g.pos = 0 \/ t[2]
               THEN [g1 EXCEPT !.end = g.pos, !.pos = g.pos + 1]
               ELSE NextLoopNoGB2([g1 EXCEPT !.pos = g.pos + 1])
    ELSE g

\* NextLoop without the test "g.pos == 0": the first call does not stop
\* before the first code point unless the state table reports a boundary.
RECURSIVE NextLoopNoGB1(_)
NextLoopNoGB1(g) ==
  IF g.pos <= Len(g.codePoints)
    THEN IF g.pos = Len(g.codePoints)
           THEN [g EXCEPT !.end = g.pos, !.pos = g.pos + 1]
           ELSE LET t == transitionGraphemeState(g.state, g.codePoints[g.pos + 1])
                    g1 == [g EXCEPT !.state = t[1]]
                IN  IF t[2]
                      THEN [g1 EXCEPT !.end = g.pos, !.pos = g.pos + 1]
                      ELSE NextLoopNoGB1([g1 EXCEPT !.pos = g.pos + 1])
    ELSE g

\* NextLoop without "g.pos++" in the GB2 step: at the end of the text the
\* scan position stays on len(g.codePoints).
RECURSIVE NextLoopGB2StaysPut(_)
NextLoopGB2StaysPut(g) ==
  IF g.pos <= Len(g.codePoints)
    THEN IF g.pos = Len(g.codePoints)
           THEN [g EXCEPT !.end = g.pos]
           ELSE LET t == transitionGraphemeState(g.state, g.codePoints[g.pos + 1])
                    g1 == [g EXCEPT !.state = t[1]]
                IN  IF g.pos = 0 \/ t[2]
                      THEN [g1 EXCEPT !.end = g.pos, !.pos = g.pos + 1]
                      ELSE NextLoopGB2StaysPut([g1 EXCEPT !.pos = g.pos + 1])
    ELSE g

\* The loop of Next.
RECURSIVE NextLoop(_)
NextLoop(g) ==
  IF g.pos <= Len(g.codePoints)
    THEN IF g.pos = Len(g.codePoints)
           THEN [g EXCEPT !.end = g.pos, !.pos = g.pos + 1]          \* GB2
           ELSE LET t == transitionGraphemeState(g.state, g.codePoints[g.pos + 1])
                    g1 == [g EXCEPT !.state = t[1]]
                IN  IF g.pos = 0 \/ t[2]                               \* GB1
                      THEN [g1 EXCEPT !.end = g.pos, !.pos = g.pos + 1]
                      ELSE NextLoop([g1 EXCEPT !.pos = g.pos + 1])
    ELSE g

\* Next zeroing the elements of g.codePoints when it has nothing left to
\* return.
GraphemesNextWipes(g) ==
  LET g1 == NextLoop([g EXCEPT !.start = g.end])
  IN  IF g.pos <= Len(g.codePoints)
        THEN [g |-> g1, ret |-> g1.start /= g1.end]
        ELSE [g |-> [g1 EXCEPT !.codePoints = [i \in 1..Len(g.codePoints) |-> 0]],
              ret |-> FALSE]

\* Next without "g.start = g.end".
GraphemesNextKeepsStart(g) ==
  LET g1 == NextLoop(g)
  IN  [g |-> g1, ret |-> g1.start /= g1.end]

\* Next: the iterator after the call and the value returned.
GraphemesNext(g) ==
  LET g1 == NextLoop([g EXCEPT !.start = g.end])
  IN  [g |-> g1, ret |-> g1.start /= g1.end]

NewGraphemes(s) ==
  LET l == RuneCountInString(s)
      rng == RangeString(s, 0)
      codePoints == [i \in 1..l |-> rng[i].r]
      indices == [i \in 1..(l + 1) |-> IF i <= l THEN rng[i].pos ELSE Len(s)]
  IN  GraphemesNext(Graphemes(codePoints, indices)).g

\* The byte offset of rs[i] accumulated by the loop of NewGraphemesFromRunes.
RECURSIVE RunesOffset(_, _)
RunesOffset(rs, i) ==
  IF i = 0 THEN 0 ELSE RunesOffset(rs, i - 1) + RuneLen(rs[i])

NewGraphemesFromRunes(rs) ==
  LET indices == [i \in 1..(Len(rs) + 1) |-> RunesOffset(rs, i - 1)]
  IN  GraphemesNext(Graphemes(rs, indices)).g

Runes(g) ==
  IF g.start = g.end THEN nil ELSE SubSeq(g.codePoints, g.start + 1, g.end)

Str(g) ==
  IF g.start = g.end THEN <<>>
  ELSE StringOfRunes(SubSeq(g.codePoints, g.start + 1, g.end))

Bytes(g) ==
  IF g.start = g.end THEN nil
  ELSE StringOfRunes(SubSeq(g.codePoints, g.start + 1, g.end))

Positions(g) == <<g.indices[g.start + 1], g.indices[g.end + 1]>>

\* Reset that leaves the parser state as the last drain left it.
ResetKeepsState(g) ==
  GraphemesNext([g EXCEPT !.start = 0, !.end = 0, !.pos = 0]).g

Reset(g) ==
  GraphemesNext([g EXCEPT !.start = 0, !.end = 0, !.pos = 0, !.state = grAny]).g

\* decomposed (the test helper): the Runes() of every cluster of s.
RECURSIVE DrainRunes(_)
DrainRunes(g) ==
  LET n == GraphemesNext(g)
  IN  IF n.ret THEN <<Runes(n.g)>> \o DrainRunes(n.g) ELSE <<>>

decomposed(s) == DrainRunes(NewGraphemes(s))

\* A count of the code points of s.
GraphemeClusterCountOfRunes(s) == RuneCountInString(s)

\* The loop "for g.Next() { n++ }".
RECURSIVE CountNext(_)
CountNext(g) ==
  LET n == GraphemesNext(g) IN IF n.ret THEN 1 + CountNext(n.g) ELSE 0

GraphemeClusterCount(s) == CountNext(NewGraphemes(s))

\* ------------------------------------------ the resumable functions
\* The scan loop returning grAny, not the state after the boundary scalar,
\* when it stops at a boundary.
RECURSIVE firstGraphemeClusterLoopDropsState(_, _, _)
firstGraphemeClusterLoopDropsState(b, length, state) ==
  LET d == DecodeRune(SliceFrom(b, length))
      t == transitionGraphemeState(state, d.r)
  IN  IF t[2]
        THEN [cluster |-> SubSeq(b, 1, length), rest |-> SliceFrom(b, length),
              newState |-> grAny]
      ELSE IF Len(b) <= length + d.size
        THEN [cluster |-> b, rest |-> nil, newState |-> grAny]
      ELSE firstGraphemeClusterLoopDropsState(b, length + d.size, t[1])

\* The scan loop returning, at a boundary, the state it was in before the
\* scalar after the boundary, not the state after it.
RECURSIVE firstGraphemeClusterLoopOldState(_, _, _)
firstGraphemeClusterLoopOldState(b, length, state) ==
  LET d == DecodeRune(SliceFrom(b, length))
      t == transitionGraphemeState(state, d.r)
  IN  IF t[2]
        THEN [cluster |-> SubSeq(b, 1, length), rest |-> SliceFrom(b, length),
              newState |-> state]
      ELSE IF Len(b) <= length + d.size
        THEN [cluster |-> b, rest |-> nil, newState |-> grAny]
      ELSE firstGraphemeClusterLoopOldState(b, length + d.size, t[1])

\* The scan loop of firstGraphemeCluster.
RECURSIVE firstGraphemeClusterLoop(_, _, _)
firstGraphemeClusterLoop(b, length, state) ==
  LET d == DecodeRune(SliceFrom(b, length))
      t == transitionGraphemeState(state, d.r)
  IN  IF t[2]
        THEN [cluster |-> SubSeq(b, 1, length), rest |-> SliceFrom(b, length),
              newState |-> t[1]]
      ELSE IF Len(b) <= length + d.size
        THEN [cluster |-> b, rest |-> nil, newState |-> grAny]
      ELSE firstGraphemeClusterLoop(b, length + d.size, t[1])

\* firstGraphemeCluster without the step "if state < 0": the state -1 goes
\* into the scan as it is.
firstGraphemeClusterNoRediscovery(b, state) ==
  IF Len(b) = 0
    THEN [cluster |-> nil, rest |-> nil, newState |-> 0]
    ELSE LET d == DecodeRune(b)
         IN  IF Len(b) <= d.size
               THEN [cluster |-> b, rest |-> nil, newState |-> grAny]
               ELSE firstGraphemeClusterLoop(b, d.size, state)

\* firstGraphemeCluster taking the first scalar to be one byte wide.
firstGraphemeClusterByteWide(b, state) ==
  IF Len(b) = 0
    THEN [cluster |-> nil, rest |-> nil, newState |-> 0]
    ELSE LET d == DecodeRune(b)
         IN  IF Len(b) <= 1
               THEN [cluster |-> b, rest |-> nil, newState |-> grAny]
               ELSE firstGraphemeClusterLoop(b, 1,
                      IF state < 0 THEN transitionGraphemeState(grAny, d.r)[1]
                                   ELSE state)

firstGraphemeCluster(b, state) ==
  IF Len(b) = 0
    THEN [cluster |-> nil, rest |-> nil, newState |-> 0]
    ELSE LET d == DecodeRune(b)
         IN  IF Len(b) <= d.size
               THEN [cluster |-> b, rest |-> nil, newState |-> grAny]
               ELSE firstGraphemeClusterLoop(b, d.size,
                      IF state < 0 THEN transitionGraphemeState(grAny, d.r)[1]
                                   ELSE state)

\* The scan loop returning the state it has reached, not grAny, when the
\* string ends without a boundary.
RECURSIVE firstGraphemeClusterInStringLoopKeepsState(_, _, _)
firstGraphemeClusterInStringLoopKeepsState(str0, length, state) ==
  LET d == DecodeRuneInString(SliceFrom(str0, length))
      t == transitionGraphemeState(state, d.r)
  IN  IF t[2]
        THEN [cluster |-> SubSeq(str0, 1, length), rest |-> SliceFrom(str0, length),
              newState |-> t[1]]
      ELSE IF Len(str0) <= length + d.size
        THEN [cluster |-> str0, rest |-> <<>>, newState |-> t[1]]
      ELSE firstGraphemeClusterInStringLoopKeepsState(str0, length + d.size, t[1])

\* The scan loop of firstGraphemeClusterInString.
RECURSIVE firstGraphemeClusterInStringLoop(_, _, _)
firstGraphemeClusterInStringLoop(str0, length, state) ==
  LET d == DecodeRuneInString(SliceFrom(str0, length))
      t == transitionGraphemeState(state, d.r)
  IN  IF t[2]
        THEN [cluster |-> SubSeq(str0, 1, length), rest |-> SliceFrom(str0, length),
              newState |-> t[1]]
      ELSE IF Len(str0) <= length + d.size
        THEN [cluster |-> str0, rest |-> <<>>, newState |-> grAny]
      ELSE firstGraphemeClusterInStringLoop(str0, length + d.size, t[1])

\* firstGraphemeClusterInString handing back the state it was given for an
\* empty string.
firstGraphemeClusterInStringEchoesState(str0, state) ==
  IF Len(str0) = 0
    THEN [cluster |-> <<>>, rest |-> <<>>, newState |-> state]
    ELSE LET d == DecodeRuneInString(str0)
         IN  IF Len(str0) <= d.size
               THEN [cluster |-> str0, rest |-> <<>>, newState |-> grAny]
               ELSE firstGraphemeClusterInStringLoop(str0, d.size,
                      IF state < 0 THEN transitionGraphemeState(grAny, d.r)[1]
                                   ELSE state)

firstGraphemeClusterInString(str0, state) ==
  IF Len(str0) = 0
    THEN [cluster |-> <<>>, rest |-> <<>>, newState |-> 0]
    ELSE LET d == DecodeRuneInString(str0)
         IN  IF Len(str0) <= d.size
               THEN [cluster |-> str0, rest |-> <<>>, newState |-> grAny]
               ELSE firstGraphemeClusterInStringLoop(str0, d.size,
                      IF state < 0 THEN transitionGraphemeState(grAny, d.r)[1]
                                   ELSE state)

\* The conversion []rune(string(c)) of the tests.
RunesOfString(c) ==
  LET rng == RangeString(c, 0) IN [i \in 1..Len(rng) |-> rng[i].r]

\* ------------------------------------------------------------- inputs
\* Longest buffer of the streaming specification and of the single-call
\* specification, counted in units.
MaxStreamLen == 3
MaxCallLen == 2

\* Code points the inputs are built from: CR, LF, Control, 'a' (Any), Extend,
\* ZWJ, ExtendedPictographic, RegionalIndicator, Prepend, SpacingMark, L, V.
IterScalars == {13, 10, 9, 97, 776, 8205, 169, 127462, 1536, 2307, 4352, 4448}
\* Malformed units: a byte that starts no encoding, a truncated encoding.
Malformed == {<<255>>, <<226, 128>>}
\* Runes handed to NewGraphemesFromRunes; 1114112 is above utf8.MaxRune.
IterRunes == {13, 10, 97, 776, 127462, 1114112}
\* CR, LF, 'a', Extend, ZWJ, ExtendedPictographic, RegionalIndicator, Prepend.
StreamScalars == {13, 10, 97, 776, 8205, 169, 127462, 1536}

RECURSIVE Concat(_)
Concat(ss) == IF ss = <<>> THEN <<>> ELSE Head(ss) \o Concat(Tail(ss))

SeqsUpTo(S, n) == UNION {[1..k -> S] : k \in 0..n}

StringInputs ==
  {Concat(us) : us \in SeqsUpTo({EncodeRune(r) : r \in IterScalars} \cup Malformed, MaxLen)}
RuneInputs == SeqsUpTo(IterRunes, MaxLen)
StreamInputs ==
  {Concat(us) : us \in SeqsUpTo({EncodeRune(r) : r \in StreamScalars} \cup {<<255>>},
                                MaxStreamLen)}
CallInputs ==
  {Concat(us) : us \in SeqsUpTo({EncodeRune(r) : r \in StreamScalars} \cup {<<255>>},
                                MaxCallLen)}

\* -------------------------------------------------------------- state
VARIABLES
  ctor,     \* the constructor that built g
  str,      \* the string given to NewGraphemes
  g,        \* the Graphemes iterator
  ret,      \* what the last user call of Next returned ("none" before it)
  out,      \* what the accessors returned after each Next() = true
  resetAt,  \* when Reset was last called: "never", "fresh", "mid", "exhausted"
  st,       \* the loop "for len(b) > 0 { c, b, state = first...(b, state) }"
  call,     \* one call of a resumable function and its results
  scan,     \* a call in progress, one loop iteration at a time
  pair,     \* two iterators and the rune slices they were built from
  tr        \* one lookup of the parser: state, code point and what it returned

vars == <<ctor, str, g, ret, out, resetAt, st, call, scan, pair, tr>>

\* What the accessors return for the current cluster.
View(h) ==
  [start |-> h.start, end |-> h.end, runes |-> Runes(h), str |-> Str(h),
   bytes |-> Bytes(h), from |-> Positions(h)[1], to |-> Positions(h)[2]]

IdleIter ==
  /\ ctor = "none" /\ str = <<>> /\ g = NewGraphemes(<<>>)
  /\ ret = "none" /\ out = <<>> /\ resetAt = "never"
IdleStream ==
  st = [whole |-> <<>>, cut |-> 0, entry |-> "none", b |-> <<>>, state |-> -1,
        out |-> <<>>, part |-> 0, thread |-> "none"]
IdleCall ==
  call = [fn |-> "none", b |-> <<>>, state |-> -1, done |-> FALSE,
          cluster |-> <<>>, rest |-> <<>>, newState |-> -1]
IdleScan ==
  scan = [mode |-> "none", pc |-> "idle", caller |-> "none", entry |-> <<>>,
          length |-> 0, state |-> 0, steps |-> 0]
IdlePair ==
  pair = [kind |-> "none", mem |-> <<>>, a |-> <<>>, b |-> <<>>]
IdleTr ==
  tr = [state |-> grAny, r |-> 0, applied |-> FALSE, newState |-> grAny,
        boundary |-> FALSE, branch |-> "none"]

\* ---------------------------------------------------- the iterator
Init ==
  /\ \/ \E s \in StringInputs :
          ctor = "NewGraphemes" /\ str = s /\ g = NewGraphemes(s)
     \/ \E rs \in RuneInputs :
          ctor = "NewGraphemesFromRunes" /\ str = <<>> /\ g = NewGraphemesFromRunes(rs)
  /\ ret = "none" /\ out = <<>> /\ resetAt = "never"
  /\ IdleStream /\ IdleCall /\ IdleScan /\ IdlePair /\ IdleTr

\* gr.Next()
CallNext ==
  LET n == GraphemesNext(g)
  IN  /\ g' = n.g
      /\ ret' = IF n.ret THEN "true" ELSE "false"
      /\ out' = IF n.ret THEN Append(out, View(n.g)) ELSE out
      /\ UNCHANGED <<ctor, str, resetAt, st, call, scan, pair, tr>>

\* gr.Reset()
CallReset ==
  /\ g' = Reset(g)
  /\ ret' = "none"
  /\ out' = <<>>
  /\ resetAt' = CASE ret = "none" -> "fresh"
                  [] ret = "true" -> "mid"
                  [] OTHER -> "exhausted"
  /\ UNCHANGED <<ctor, str, st, call, scan, pair, tr>>

Next == CallNext \/ CallReset

Spec == Init /\ [][Next]_vars

\* ------------------------------------- draining a buffer, in two parts
\* The buffer whole is handed over as whole[:cut] and then whole[cut:].
InitStream ==
  /\ \E w \in StreamInputs, c \in 0..MaxStreamLen * 4, e \in {"bytes", "string"} :
       /\ c <= Len(w)
       /\ st = [whole |-> w, cut |-> c, entry |-> e, b |-> SubSeq(w, 1, c),
                state |-> -1, out |-> <<>>, part |-> 1, thread |-> "none"]
  /\ IdleIter /\ IdleCall /\ IdleScan /\ IdlePair /\ IdleTr

\* c, b, state = firstGraphemeCluster(b, state), while len(b) > 0
StepBytes ==
  /\ st.entry = "bytes"
  /\ Len(st.b) > 0
  /\ LET res == firstGraphemeCluster(st.b, st.state)
     IN  st' = [st EXCEPT !.b = res.rest, !.state = res.newState,
                          !.out = Append(st.out, res.cluster)]
  /\ UNCHANGED <<ctor, str, g, ret, out, resetAt, call, scan, pair, tr>>

\* c, str, state = firstGraphemeClusterInString(str, state), while len(str) > 0
StepString ==
  /\ st.entry = "string"
  /\ Len(st.b) > 0
  /\ LET res == firstGraphemeClusterInString(st.b, st.state)
     IN  st' = [st EXCEPT !.b = res.rest, !.state = res.newState,
                          !.out = Append(st.out, res.cluster)]
  /\ UNCHANGED <<ctor, str, g, ret, out, resetAt, call, scan, pair, tr>>

\* The second part follows with the state the last call returned.
FeedCarry ==
  /\ st.part = 1
  /\ Len(st.b) = 0
  /\ st' = [st EXCEPT !.b = SliceFrom(st.whole, st.cut), !.part = 2,
                       !.thread = "carry"]
  /\ UNCHANGED <<ctor, str, g, ret, out, resetAt, call, scan, pair, tr>>

\* The second part follows with the state -1.
FeedFresh ==
  /\ st.part = 1
  /\ Len(st.b) = 0
  /\ st' = [st EXCEPT !.b = SliceFrom(st.whole, st.cut), !.part = 2,
                       !.state = -1, !.thread = "fresh"]
  /\ UNCHANGED <<ctor, str, g, ret, out, resetAt, call, scan, pair, tr>>

NextStream == StepBytes \/ StepString \/ FeedCarry \/ FeedFresh

SpecStream == InitStream /\ [][NextStream]_vars

\* ------------------------- the iterator over longer runs of emoji scalars
MaxEmojiLen == 5
EmojiScalars == {127462, 169, 776, 8205, 1536, 97, 13}
EmojiInputs ==
  {Concat(us) : us \in SeqsUpTo({EncodeRune(r) : r \in EmojiScalars}, MaxEmojiLen)}

InitEmoji ==
  /\ ctor = "NewGraphemes"
  /\ str \in EmojiInputs
  /\ g = NewGraphemes(str)
  /\ ret = "none"
  /\ out = <<>>
  /\ resetAt = "never"
  /\ IdleStream /\ IdleCall /\ IdleScan /\ IdlePair /\ IdleTr

SpecEmoji == InitEmoji /\ [][CallNext]_vars

\* ------------------------------------ one call, any buffer, any state
InitCall ==
  /\ \E b \in CallInputs, s \in (-1)..grRIEven :
       call = [fn |-> "none", b |-> b, state |-> s, done |-> FALSE,
               cluster |-> <<>>, rest |-> <<>>, newState |-> -1]
  /\ IdleIter /\ IdleStream /\ IdleScan /\ IdlePair /\ IdleTr

CallBytes ==
  /\ ~call.done
  /\ LET res == firstGraphemeCluster(call.b, call.state)
     IN  call' = [call EXCEPT !.fn = "bytes", !.done = TRUE, !.cluster = res.cluster,
                              !.rest = res.rest, !.newState = res.newState]
  /\ UNCHANGED <<ctor, str, g, ret, out, resetAt, st, scan, pair, tr>>

CallString ==
  /\ ~call.done
  /\ LET res == firstGraphemeClusterInString(call.b, call.state)
     IN  call' = [call EXCEPT !.fn = "string", !.done = TRUE, !.cluster = res.cluster,
                              !.rest = res.rest, !.newState = res.newState]
  /\ UNCHANGED <<ctor, str, g, ret, out, resetAt, st, scan, pair, tr>>

NextCall == CallBytes \/ CallString

SpecCall == InitCall /\ [][NextCall]_vars

\* ------------------------------- the calls, one loop iteration at a time
MaxScanLen == 3
ScanScalars == {13, 10, 97, 776, 127462}
ScanInputs ==
  {Concat(us) : us \in SeqsUpTo({EncodeRune(r) : r \in ScanScalars} \cup Malformed,
                                MaxScanLen)}

\* One pass through "for g.pos <= len(g.codePoints)" of Next: the iterator
\* after it, and whether Next returns.
NextStep(h) ==
  IF h.pos <= Len(h.codePoints)
    THEN IF h.pos = Len(h.codePoints)
           THEN [g |-> [h EXCEPT !.end = h.pos, !.pos = h.pos + 1], done |-> TRUE]
           ELSE LET t == transitionGraphemeState(h.state, h.codePoints[h.pos + 1])
                    h1 == [h EXCEPT !.state = t[1]]
                IN  IF h.pos = 0 \/ t[2]
                      THEN [g |-> [h1 EXCEPT !.end = h.pos, !.pos = h.pos + 1],
                            done |-> TRUE]
                      ELSE [g |-> [h1 EXCEPT !.pos = h.pos + 1], done |-> FALSE]
    ELSE [g |-> h, done |-> TRUE]

\* firstGraphemeCluster up to its loop: the results if it returns, else the
\* length and the state the loop starts with.
firstGraphemeClusterEnter(b, state) ==
  IF Len(b) = 0
    THEN [done |-> TRUE, length |-> 0, state |-> state,
          cluster |-> nil, rest |-> nil, newState |-> 0]
    ELSE LET d == DecodeRune(b)
         IN  IF Len(b) <= d.size
               THEN [done |-> TRUE, length |-> d.size, state |-> state,
                     cluster |-> b, rest |-> nil, newState |-> grAny]
               ELSE [done |-> FALSE, length |-> d.size,
                     state |-> IF state < 0
                                 THEN transitionGraphemeState(grAny, d.r)[1]
                                 ELSE state,
                     cluster |-> nil, rest |-> nil, newState |-> 0]

\* The pass without "length += l".
firstGraphemeClusterStepStaysPut(b, length, state) ==
  LET d == DecodeRune(SliceFrom(b, length))
      t == transitionGraphemeState(state, d.r)
  IN  IF t[2]
        THEN [done |-> TRUE, length |-> length, state |-> t[1],
              cluster |-> SubSeq(b, 1, length), rest |-> SliceFrom(b, length),
              newState |-> t[1]]
      ELSE IF Len(b) <= length
        THEN [done |-> TRUE, length |-> length, state |-> t[1],
              cluster |-> b, rest |-> nil, newState |-> grAny]
      ELSE [done |-> FALSE, length |-> length, state |-> t[1],
            cluster |-> nil, rest |-> nil, newState |-> 0]

\* One pass through the loop of firstGraphemeCluster (and of
\* firstGraphemeClusterInString, which is the same code on a string).
firstGraphemeClusterStep(b, length, state) ==
  LET d == DecodeRune(SliceFrom(b, length))
      t == transitionGraphemeState(state, d.r)
  IN  IF t[2]
        THEN [done |-> TRUE, length |-> length, state |-> t[1],
              cluster |-> SubSeq(b, 1, length), rest |-> SliceFrom(b, length),
              newState |-> t[1]]
      ELSE IF Len(b) <= length + d.size
        THEN [done |-> TRUE, length |-> length + d.size, state |-> t[1],
              cluster |-> b, rest |-> nil, newState |-> grAny]
      ELSE [done |-> FALSE, length |-> length + d.size, state |-> t[1],
            cluster |-> nil, rest |-> nil, newState |-> 0]

\* Either a constructor has filled the struct and is about to call Next, or
\* the loop "for len(b) > 0" is about to make its first call.
InitScan ==
  /\ \/ \E s \in ScanInputs :
          LET h == NewGraphemes(s)
              lit == Graphemes(h.codePoints, h.indices)
          IN  /\ ctor = "NewGraphemes" /\ str = s /\ g = lit
              /\ ret = "none" /\ out = <<>> /\ resetAt = "never"
              /\ scan = [mode |-> "iter", pc |-> "next", caller |-> "NewGraphemes",
                         entry |-> lit, length |-> 0, state |-> 0, steps |-> 0]
              /\ IdleStream
     \/ \E w \in ScanInputs, e \in {"bytes", "string"} :
          /\ st = [whole |-> w, cut |-> Len(w), entry |-> e, b |-> w,
                   state |-> -1, out |-> <<>>, part |-> 1, thread |-> "none"]
          /\ scan = [mode |-> e, pc |-> "idle", caller |-> "none",
                     entry |-> <<>>, length |-> 0, state |-> 0, steps |-> 0]
          /\ IdleIter
  /\ IdleCall /\ IdlePair /\ IdleTr

\* gr.Next() is entered: g.start = g.end
ScanEnterNext ==
  /\ scan.mode = "iter" /\ scan.pc = "idle"
  /\ g' = [g EXCEPT !.start = g.end]
  /\ scan' = [scan EXCEPT !.pc = "next", !.caller = "Next", !.entry = g,
                          !.steps = 0]
  /\ UNCHANGED <<ctor, str, ret, out, resetAt, st, call, pair, tr>>

\* gr.Reset() is entered: the four fields are zeroed and Next is called
ScanEnterReset ==
  /\ scan.mode = "iter" /\ scan.pc = "idle"
  /\ g' = [g EXCEPT !.start = 0, !.end = 0, !.pos = 0, !.state = grAny]
  /\ scan' = [scan EXCEPT !.pc = "next", !.caller = "Reset", !.entry = g,
                          !.steps = 0]
  /\ ret' = "none"
  /\ out' = <<>>
  /\ UNCHANGED <<ctor, str, resetAt, st, call, pair, tr>>

\* one pass through the loop of Next, or its exit
ScanNextStep ==
  /\ scan.pc = "next"
  /\ scan.steps <= Len(g.codePoints) + 1
  /\ LET n == NextStep(g)
         yes == n.g.start /= n.g.end
     IN  /\ g' = n.g
         /\ scan' = [scan EXCEPT !.pc = IF n.done THEN "idle" ELSE "next",
                                 !.steps = scan.steps + 1]
         /\ ret' = IF n.done /\ scan.caller = "Next"
                     THEN (IF yes THEN "true" ELSE "false")
                     ELSE ret
         /\ out' = IF n.done /\ scan.caller = "Next" /\ yes
                     THEN Append(out, View(n.g))
                     ELSE out
  /\ UNCHANGED <<ctor, str, resetAt, st, call, pair, tr>>

\* first...(b, state) is entered, while len(b) > 0
ScanEnterFirst ==
  /\ scan.mode \in {"bytes", "string"} /\ scan.pc = "idle"
  /\ Len(st.b) > 0
  /\ LET e == firstGraphemeClusterEnter(st.b, st.state)
     IN  /\ scan' = [scan EXCEPT !.pc = IF e.done THEN "idle" ELSE "scan",
                                 !.entry = st.b, !.length = e.length,
                                 !.state = e.state, !.steps = 0]
         /\ st' = IF e.done
                    THEN [st EXCEPT !.b = e.rest, !.state = e.newState,
                                    !.out = Append(st.out, e.cluster)]
                    ELSE st
  /\ UNCHANGED <<ctor, str, g, ret, out, resetAt, call, pair, tr>>

\* one pass through the loop of first...(b, state)
ScanFirstStep ==
  /\ scan.pc = "scan"
  /\ scan.steps <= Len(st.b)
  /\ LET e == firstGraphemeClusterStep(st.b, scan.length, scan.state)
     IN  /\ scan' = [scan EXCEPT !.pc = IF e.done THEN "idle" ELSE "scan",
                                 !.length = e.length, !.state = e.state,
                                 !.steps = scan.steps + 1]
         /\ st' = IF e.done
                    THEN [st EXCEPT !.b = e.rest, !.state = e.newState,
                                    !.out = Append(st.out, e.cluster)]
                    ELSE st
  /\ UNCHANGED <<ctor, str, g, ret, out, resetAt, call, pair, tr>>

NextScan ==
  ScanEnterNext \/ ScanEnterReset \/ ScanNextStep \/ ScanEnterFirst \/ ScanFirstStep

SpecScan == InitScan /\ [][NextScan]_vars

\* ------------------------------------------- two iterators side by side
MaxPairLen == 2
PairScalars == {127462, 776, 97}
PairRunes == SeqsUpTo(PairScalars, MaxPairLen)

\* pair.mem holds the arrays behind the []rune slices; the codePoints field of
\* pair.a.it and pair.b.it is an index into it, as a slice refers to its
\* array. solo is the same iterator with an array of its own, on which only
\* its own calls act.
PairLoad(who) ==
  [pair[who].it EXCEPT !.codePoints = pair.mem[pair[who].it.codePoints]]

Instance(h, addr) ==
  [it |-> [h EXCEPT !.codePoints = addr], ret |-> "none",
   solo |-> h, soloRet |-> "none"]

InitPair ==
  /\ \/ \E rs \in PairRunes :                 \* NewGraphemesFromRunes(rs) twice
          pair = [kind |-> "sameSlice", mem |-> <<rs>>,
                  a |-> Instance(NewGraphemesFromRunes(rs), 1),
                  b |-> Instance(NewGraphemesFromRunes(rs), 1)]
     \/ \E rs1 \in PairRunes, rs2 \in PairRunes :
          pair = [kind |-> "twoSlices", mem |-> <<rs1, rs2>>,
                  a |-> Instance(NewGraphemesFromRunes(rs1), 1),
                  b |-> Instance(NewGraphemesFromRunes(rs2), 2)]
     \/ \E rs \in PairRunes :                 \* NewGraphemes(s) twice
          LET h == NewGraphemes(StringOfRunes(rs))
          IN  pair = [kind |-> "sameString", mem |-> <<h.codePoints, h.codePoints>>,
                      a |-> Instance(h, 1), b |-> Instance(h, 2)]
  /\ IdleIter /\ IdleStream /\ IdleCall /\ IdleScan /\ IdleTr

\* Next() on one of the two iterators
PairNext(who) ==
  LET x == pair[who]
      n == GraphemesNext(PairLoad(who))
      alone == GraphemesNext(x.solo)
  IN  /\ pair' = [pair EXCEPT
                    ![who] = [it |-> [n.g EXCEPT !.codePoints = x.it.codePoints],
                              ret |-> IF n.ret THEN "true" ELSE "false",
                              solo |-> alone.g,
                              soloRet |-> IF alone.ret THEN "true" ELSE "false"],
                    !.mem = [pair.mem EXCEPT ![x.it.codePoints] = n.g.codePoints]]
      /\ UNCHANGED <<ctor, str, g, ret, out, resetAt, st, call, scan, tr>>

\* Reset() on one of the two iterators
PairReset(who) ==
  LET x == pair[who]
      h == Reset(PairLoad(who))
  IN  /\ pair' = [pair EXCEPT
                    ![who] = [it |-> [h EXCEPT !.codePoints = x.it.codePoints],
                              ret |-> "none",
                              solo |-> Reset(x.solo),
                              soloRet |-> "none"],
                    !.mem = [pair.mem EXCEPT ![x.it.codePoints] = h.codePoints]]
      /\ UNCHANGED <<ctor, str, g, ret, out, resetAt, st, call, scan, tr>>

NextPair == PairNext("a") \/ PairNext("b") \/ PairReset("a") \/ PairReset("b")

SpecPair == InitPair /\ [][NextPair]_vars

\* -------------------------------- one lookup, any state, any property
\* A code point of every property class, and two more of the class Any.
TransScalars ==
  {13, 10, 9, 776, 8205, 127462, 169, 1536, 2307, 4352, 4448, 4520, 44032,
   44033, 97, RuneError, MaxRune + 1}

InitTrans ==
  /\ \E s \in States, r \in TransScalars :
       tr = [state |-> s, r |-> r, applied |-> FALSE, newState |-> grAny,
             boundary |-> FALSE, branch |-> "none"]
  /\ IdleIter /\ IdleStream /\ IdleCall /\ IdleScan /\ IdlePair

\* newState, boundary = transitionGraphemeState(state, r)
TransApply ==
  /\ ~tr.applied
  /\ LET t == transitionGraphemeState(tr.state, tr.r)
     IN  tr' = [tr EXCEPT !.applied = TRUE, !.newState = t[1], !.boundary = t[2],
                          !.branch = transitionBranch(tr.state, tr.r)]
  /\ UNCHANGED <<ctor, str, g, ret, out, resetAt, st, call, scan, pair>>

\* the next code point meets the state returned
TransFeed ==
  /\ tr.applied
  /\ \E r \in TransScalars :
       tr' = [state |-> tr.newState, r |-> r, applied |-> FALSE,
              newState |-> grAny, boundary |-> FALSE, branch |-> "none"]
  /\ UNCHANGED <<ctor, str, g, ret, out, resetAt, st, call, scan, pair>>

NextTrans == TransApply \/ TransFeed

SpecTrans == InitTrans /\ [][NextTrans]_vars

\* ================================================= claims: the iterator
N == Len(g.codePoints)
Props == [i \in 1..N |-> property(g.codePoints[i])]
\* The cluster ends the drain has produced so far.
Ends == {out[k].end : k \in 1..Len(out)}
Drained == ret = "false"

\* Number of consecutive RegionalIndicators that end at ps[i].
RECURSIVE RIRun(_, _)
RIRun(ps, i) ==
  IF i = 0 \/ ps[i] /= prRegionalIndicator THEN 0 ELSE 1 + RIRun(ps, i - 1)

\* GB11: ps[i] is a ZWJ that follows ExtendedPictographic Extend*.
RECURSIVE PictographicBefore(_, _)
PictographicBefore(ps, i) ==
  IF i = 0 THEN FALSE
  ELSE IF ps[i] = prExtendedPictographic THEN TRUE
  ELSE IF ps[i] = prExtend THEN PictographicBefore(ps, i - 1)
  ELSE FALSE

\* UAX #29 (Unicode 14), GB3 to GB999: a boundary between ps[i] and ps[i+1].
UAX29Break(ps, i) ==
  LET a == ps[i]
      b == ps[i + 1]
      ccl == {prControl, prCR, prLF}
  IN  IF a = prCR /\ b = prLF THEN FALSE                       \* GB3
      ELSE IF a \in ccl \/ b \in ccl THEN TRUE                  \* GB4, GB5
      ELSE ~ \/ a = prL /\ b \in {prL, prV, prLV, prLVT}        \* GB6
             \/ a \in {prLV, prV} /\ b \in {prV, prT}           \* GB7
             \/ a \in {prLVT, prT} /\ b = prT                   \* GB8
             \/ b \in {prExtend, prZWJ}                         \* GB9
             \/ b = prSpacingMark                               \* GB9a
             \/ a = prPrepend                                   \* GB9b
             \/ /\ a = prZWJ /\ b = prExtendedPictographic      \* GB11
                /\ PictographicBefore(ps, i - 1)
             \/ /\ a = prRegionalIndicator                      \* GB12, GB13
                /\ b = prRegionalIndicator
                /\ RIRun(ps, i) % 2 = 1

\* C1: a drained iterator has placed a cluster boundary between two adjacent
\* scalars exactly where UAX #29 (GB3 to GB13, then GB999) places one, and a
\* boundary at the start and at the end of a non-empty text (GB1, GB2).
C1_BoundariesAreUAX29 ==
  Drained =>
    /\ \A i \in 1..(N - 1) : (i \in Ends) <=> UAX29Break(Props, i)
    /\ N > 0 => (out /= <<>> /\ out[1].start = 0 /\ N \in Ends)

\* C2: the ranges [start, end) current after the calls of Next() that returned
\* true are non-empty, the first starts at 0, each next one starts where the
\* previous one ended, and Next() returns false only when the last range
\* ended at N (or N = 0, with no range at all).
C2_RangesPartition ==
  /\ \A k \in 1..Len(out) : out[k].start < out[k].end
  /\ out /= <<>> => out[1].start = 0
  /\ \A k \in 2..Len(out) : out[k].start = out[k - 1].end
  /\ \A k \in 1..Len(out) : out[k].end <= N
  /\ Drained => IF out = <<>> THEN N = 0 ELSE out[Len(out)].end = N

C2_Witness == Drained /\ Len(out) >= 2 /\ \E k \in 1..Len(out) : out[k].end > out[k].start + 1

\* C3: no boundary between a CR and the LF right after it; a boundary between
\* every other pair of adjacent scalars of which one is Control, CR or LF.
C3_ControlBoundaries ==
  Drained =>
    \A i \in 1..(N - 1) :
      LET a == Props[i]
          b == Props[i + 1]
          ccl == {prControl, prCR, prLF}
      IN  IF a = prCR /\ b = prLF THEN i \notin Ends
          ELSE (a \in ccl \/ b \in ccl) => i \in Ends

\* C4: the Str() of the clusters of NewGraphemes(str), concatenated in order,
\* are str, for well-formed and for malformed str.
C4_StrConcatIsInput ==
  (ctor = "NewGraphemes" /\ Drained) =>
    Concat([k \in 1..Len(out) |-> out[k].str]) = str

\* Byte length of the text the iterator was built from.
TotalBytes ==
  IF ctor = "NewGraphemes" THEN Len(str) ELSE Len(StringOfRunes(g.codePoints))

\* C5: the (from, to) pairs of Positions() after the calls of Next() that
\* returned true have from <= to, start at 0, follow one another without gap
\* or overlap and end at the byte length of the text, for both constructors.
C5_PositionsCover ==
  /\ \A k \in 1..Len(out) : out[k].from <= out[k].to
  /\ out /= <<>> => out[1].from = 0
  /\ \A k \in 2..Len(out) : out[k].from = out[k - 1].to
  /\ Drained => IF out = <<>> THEN TotalBytes = 0 ELSE out[Len(out)].to = TotalBytes

\* A freshly constructed iterator over the same text.
Fresh ==
  IF ctor = "NewGraphemes" THEN NewGraphemes(str) ELSE NewGraphemesFromRunes(g.codePoints)

RECURSIVE DrainViews(_)
DrainViews(h) ==
  LET n == GraphemesNext(h)
  IN  IF n.ret THEN <<View(n.g)>> \o DrainViews(n.g) ELSE <<>>

\* C6: after Reset(), whenever it was called (before any Next(), between two,
\* after exhaustion), draining yields the clusters that draining a freshly
\* constructed iterator over the same text yields.
C6_ResetReplays ==
  resetAt /= "never" =>
    LET d == DrainViews(Fresh)
    IN  /\ Len(out) <= Len(d)
        /\ out = SubSeq(d, 1, Len(out))
        /\ Drained => out = d

C6_Witness == resetAt = "exhausted" /\ Drained /\ Len(out) >= 2

\* ================================== claims: the resumable functions
\* The clusters the loop has produced, as the tests read them.
StreamRunes == [k \in 1..Len(st.out) |-> RunesOfString(st.out[k])]
StreamDone == Len(st.b) = 0
SingleShot == st.part = 1 /\ st.cut = Len(st.whole)

\* C7: calling firstGraphemeCluster (or firstGraphemeClusterInString) on the
\* remainder, from state -1 and with the state of the call before, until the
\* remainder is empty yields the clusters of a drained Graphemes iterator over
\* the buffer; both functions return the same cluster, remainder and state.
C7_StreamEqualsIterator ==
  /\ firstGraphemeCluster(st.b, st.state) = firstGraphemeClusterInString(st.b, st.state)
  /\ SingleShot =>
       LET d == decomposed(st.whole)
       IN  /\ Len(StreamRunes) <= Len(d)
           /\ StreamRunes = SubSeq(d, 1, Len(StreamRunes))
           /\ StreamDone => StreamRunes = d

C7_Witness ==
  /\ SingleShot /\ StreamDone /\ Len(st.out) >= 2
  /\ \E k \in 1..Len(st.out) : Len(StreamRunes[k]) >= 2

\* C8: a buffer split at any offset, the first part drained from state -1 and
\* the second part drained from the state the last call on the first part
\* returned, yields the clusters of the whole buffer.
C8_SplitAnywhereCarried ==
  (st.part = 2 /\ st.thread = "carry" /\ StreamDone) =>
    StreamRunes = decomposed(st.whole)

\* The byte offsets at which a cluster of s starts or ends.
RECURSIVE DrainOffsets(_)
DrainOffsets(h) ==
  LET n == GraphemesNext(h)
  IN  IF n.ret THEN {Positions(n.g)[1], Positions(n.g)[2]} \cup DrainOffsets(n.g)
      ELSE {0}

ClusterOffsets(s) == DrainOffsets(NewGraphemes(s))

\* C8 (amended): a buffer split at an offset where a cluster of the whole
\* buffer starts or ends, each part drained from state -1, yields the clusters
\* of the whole buffer.
C8_SplitAtClusterFresh ==
  (st.part = 2 /\ st.thread = "fresh" /\ StreamDone
     /\ st.cut \in ClusterOffsets(st.whole)) =>
    StreamRunes = decomposed(st.whole)

C8_Witness ==
  /\ st.part = 2 /\ st.thread = "fresh" /\ StreamDone
  /\ st.cut \in ClusterOffsets(st.whole) /\ 0 < st.cut /\ st.cut < Len(st.whole)
  /\ Len(RunesOfString(SliceFrom(st.whole, st.cut))) >= 2
  /\ Len(st.out) = 2

\* The call has used up a non-empty buffer without finding a boundary in it.
Exhausted == call.done /\ Len(call.b) > 0 /\ Len(call.rest) = 0

\* C9: a call that uses up a non-empty buffer without finding a boundary
\* returns the buffer as the cluster, an empty remainder and the state -1.
C9_ExhaustedReturnsUnknown ==
  Exhausted => (call.cluster = call.b /\ call.rest = nil /\ call.newState = -1)

\* C9 (amended): such a call returns the buffer as the cluster, an empty
\* remainder and the state grAny (0), which is not the state -1; from state
\* -1 it is the call on a buffer that is one cluster for the iterator.
C9_ExhaustedReturnsAny ==
  /\ Exhausted => (call.cluster = call.b /\ call.rest = nil /\ call.newState = grAny)
  /\ (call.done /\ call.state = -1 /\ Len(call.b) > 0) =>
       (Len(call.rest) = 0 <=> Len(decomposed(call.b)) = 1)

C9_Witness ==
  Exhausted /\ Len(RunesOfString(call.b)) >= 2 /\ call.state \notin {-1, grAny}

\* C10: for an empty buffer and every state given, the cluster and the
\* remainder returned are empty and the state returned is the state given.
C10_EmptyKeepsState ==
  (call.done /\ Len(call.b) = 0) =>
    (call.cluster = nil /\ call.rest = nil /\ call.newState = call.state)

\* C10 (amended): for an empty buffer and every state given, the cluster and
\* the remainder returned are empty and the state returned is grAny (0).
C10_EmptyReturnsAny ==
  (call.done /\ Len(call.b) = 0) =>
    (call.cluster = nil /\ call.rest = nil /\ call.newState = grAny)

C10_Witness ==
  call.done /\ Len(call.b) = 0 /\ call.fn = "string" /\ call.state = grRIOdd

\* The loop "for len(b) > 0 { c, b, _ = first...(b, -1) }": every call is
\* given the state -1.
RECURSIVE DrainUnknown(_, _)
DrainUnknown(entry, b) ==
  IF Len(b) = 0 THEN <<>>
  ELSE LET c == IF entry = "bytes" THEN firstGraphemeCluster(b, -1)
                ELSE firstGraphemeClusterInString(b, -1)
       IN  <<c.cluster>> \o DrainUnknown(entry, c.rest)

\* The call the loop makes next.
StreamCall ==
  IF st.entry = "bytes" THEN firstGraphemeCluster(st.b, st.state)
  ELSE firstGraphemeClusterInString(st.b, st.state)

\* C11: draining a buffer with the state of the call before yields the
\* clusters that draining it with the state -1 at every call yields, and a
\* call that returns at a boundary returns the state that grAny takes on the
\* first scalar of the remainder.
C11_UnknownEqualsCarried ==
  /\ st.part = 1 =>
       LET d == DrainUnknown(st.entry, SubSeq(st.whole, 1, st.cut))
       IN  /\ Len(st.out) <= Len(d)
           /\ st.out = SubSeq(d, 1, Len(st.out))
           /\ Len(st.b) = 0 => st.out = d
  /\ Len(StreamCall.rest) > 0 =>
       StreamCall.newState
         = transitionGraphemeState(grAny, DecodeRune(StreamCall.rest).r)[1]

C11_Witness ==
  /\ st.part = 1 /\ Len(st.out) >= 1 /\ st.state \notin {-1, grAny}
  /\ Len(StreamCall.rest) > 0 /\ StreamCall.newState \notin {-1, grAny}

\* C12: a call on a non-empty buffer, whatever the state given, returns a
\* non-empty cluster and a remainder that make up the buffer, and the
\* cluster ends where a scalar of the buffer ends.
C12_ClusterIsPrefix ==
  (call.done /\ Len(call.b) > 0) =>
    /\ Len(call.cluster) > 0
    /\ call.cluster \o call.rest = call.b
    /\ \/ Len(call.cluster) = Len(call.b)
       \/ \E k \in 1..Len(RangeString(call.b, 0)) :
            RangeString(call.b, 0)[k].pos = Len(call.cluster)

C12_Witness ==
  /\ call.done /\ Len(call.rest) > 0 /\ call.state \notin {-1, grAny}
  /\ Len(call.cluster) > Len(RunesOfString(call.cluster))

\* ====================================== claims: accessors and count
\* C13: after either constructor and after Reset(), before any call of
\* Next(), Runes() is nil, Str() is empty, Bytes() is nil and Positions() is
\* (0, 0).
C13_NothingBeforeNext ==
  ret = "none" =>
    /\ Runes(g) = nil /\ Str(g) = <<>> /\ Bytes(g) = nil
    /\ Positions(g) = <<0, 0>>

C13_Witness ==
  /\ ret = "none" /\ resetAt = "mid" /\ N >= 2
  /\ property(g.codePoints[1]) \in {prExtend, prAny}

\* C14: once Next() has returned false, and after every further Next(),
\* Runes() is nil, Str() is empty, Bytes() is nil and Positions() is
\* (totalBytes, totalBytes), the byte length of the text.
C14_PastTheEnd ==
  Drained =>
    /\ Runes(g) = nil /\ Str(g) = <<>> /\ Bytes(g) = nil
    /\ Positions(g) = <<TotalBytes, TotalBytes>>

\* C15: for every cluster of NewGraphemes(str), Positions() is a pair
\* (from, to) with str[from:to] equal to Str() and to Bytes().
C15_PositionsSliceIsStr ==
  ctor = "NewGraphemes" =>
    \A k \in 1..Len(out) :
      /\ 0 <= out[k].from /\ out[k].from <= out[k].to /\ out[k].to <= Len(str)
      /\ SubSeq(str, out[k].from + 1, out[k].to) = out[k].str
      /\ SubSeq(str, out[k].from + 1, out[k].to) = out[k].bytes

\* C18: GraphemeClusterCount(s) is the number of calls of Next() that return
\* true when a fresh iterator over s is drained; it is 0 for the empty text.
C18_CountIsDrainLength ==
  /\ (ctor = "NewGraphemes" /\ resetAt = "never" /\ Drained) =>
       GraphemeClusterCount(str) = Len(out)
  /\ (ctor = "NewGraphemes" /\ str = <<>>) => GraphemeClusterCount(str) = 0

C18_Witness ==
  /\ ctor = "NewGraphemes" /\ resetAt = "never" /\ Drained
  /\ Len(out) >= 2 /\ Len(out) < N

\* ============================== claims: regional indicators and emoji
\* C16: in a run of RegionalIndicators that no RegionalIndicator precedes
\* or follows, whatever else precedes it, there is no boundary after the
\* first, third, ... indicator of the run and a boundary after the second,
\* fourth, ... when another indicator follows.
C16_RegionalIndicatorPairs ==
  Drained =>
    \A i \in 1..(N - 1) :
      (Props[i] = prRegionalIndicator /\ Props[i + 1] = prRegionalIndicator) =>
        (i \in Ends <=> RIRun(Props, i) % 2 = 0)

C16_Witness ==
  /\ Drained /\ N = 5 /\ RIRun(Props, 5) = 4
  /\ Props[1] = prPrepend /\ Len(out) = 2

\* The index of the ExtendedPictographic that ps[i] extends (Extend*), or 0.
RECURSIVE PictographicStart(_, _)
PictographicStart(ps, i) ==
  IF i = 0 THEN 0
  ELSE IF ps[i] = prExtendedPictographic THEN i
  ELSE IF ps[i] = prExtend THEN PictographicStart(ps, i - 1)
  ELSE 0

\* C17: there is no boundary inside ExtendedPictographic Extend* ZWJ
\* ExtendedPictographic, whatever precedes it; so none inside a chain of
\* such links either.
C17_EmojiZWJSequence ==
  Drained =>
    \A i \in 2..(N - 1) :
      (Props[i] = prZWJ /\ Props[i + 1] = prExtendedPictographic
         /\ PictographicStart(Props, i - 1) > 0) =>
        \A k \in PictographicStart(Props, i - 1)..i : k \notin Ends

C17_Witness ==
  /\ Drained /\ N = 5 /\ Len(out) = 1
  /\ Props = <<prPrepend, prExtendedPictographic, prExtend, prZWJ,
               prExtendedPictographic>>

\* =============================================== claims: termination
\* The calls SpecScan has completed return what the operators of the whole
\* calls return.
ScanRefinesCalls ==
  /\ (scan.mode = "iter" /\ scan.pc = "idle") =>
       g = IF scan.caller = "Reset" THEN Reset(scan.entry)
           ELSE GraphemesNext(scan.entry).g
  /\ (scan.mode \in {"bytes", "string"} /\ scan.pc = "idle") =>
       LET d == DrainUnknown(scan.mode, st.whole)
       IN  /\ Len(st.out) <= Len(d)
           /\ st.out = SubSeq(d, 1, Len(st.out))
           /\ Len(st.b) = 0 => st.out = d

\* The scan position stays within the input, a call makes no more passes
\* through its loop than the input has positions, and the loop "for
\* len(b) > 0" makes no more calls than the buffer has bytes.
ScanBounded ==
  /\ scan.mode = "iter" =>
       /\ 0 <= g.pos /\ g.pos <= Len(g.codePoints) + 1
       /\ scan.steps <= Len(g.codePoints) + 1
  /\ scan.mode \in {"bytes", "string"} =>
       /\ scan.pc = "scan" => (0 < scan.length /\ scan.length < Len(st.b))
       /\ scan.steps < Len(scan.entry) \/ scan.steps = 0
       /\ Len(st.out) + Len(st.b) <= Len(st.whole)

\* A pass through a loop that does not return moves the scan position
\* forward, and a streaming call that returns leaves a shorter remainder.
ScanAdvances ==
  /\ (scan.pc = "next" /\ scan'.pc = "next") => g'.pos = g.pos + 1
  /\ (scan.pc = "scan" /\ scan'.pc = "scan") =>
       (scan.length < scan'.length /\ scan'.length < Len(st.b))
  /\ (scan.mode \in {"bytes", "string"} /\ scan'.pc = "idle") =>
       (Len(st'.b) < Len(st.b) /\ Len(st'.out) = Len(st.out) + 1)

\* C19: every call of Next(), Reset(), firstGraphemeCluster and
\* firstGraphemeClusterInString returns, on well-formed and on malformed
\* input: each pass through its loop moves the scan position forward and the
\* position is bounded by the length of the input; and the remainder of the
\* streaming functions gets shorter with every call, so that it is empty
\* after at most as many calls as the buffer has bytes.
C19_EveryCallTerminates == []ScanBounded /\ [][ScanAdvances]_vars

C19_Witness ==
  /\ scan.pc = "scan" /\ scan.steps >= 1 /\ Len(st.out) >= 1
  /\ 255 \in {st.whole[i] : i \in 1..Len(st.whole)}

\* ============================================ claims: two iterators
\* C20: of two iterators, over two texts or over the same text or rune
\* slice, with their calls of Next() and Reset() interleaved in any order,
\* each returns from Next(), Runes(), Str(), Bytes() and Positions() what it
\* returns when it is the only iterator, and is in the state it is in then.
C20_InstancesIndependent ==
  \A who \in {"a", "b"} :
    /\ PairLoad(who) = pair[who].solo
    /\ pair[who].ret = pair[who].soloRet
    /\ View(PairLoad(who)) = View(pair[who].solo)

C20_Witness ==
  /\ pair.kind = "sameSlice" /\ Len(pair.mem[1]) = 2
  /\ pair.a.ret = "false"
  /\ pair.b.ret = "true" /\ pair.b.it.start = 1 /\ pair.b.it.end = 2

\* ======================================= claims: the fields of Graphemes
\* The scan position is past the last code point: the last cluster, if there
\* is one, has been returned.
PastEnd == g.pos > N

\* C21: a call of Next() made when the scan position is past the end of the
\* text returns false and leaves start and end as they were.
C21_PastEndKeepsRange ==
  [][(PastEnd /\ ret' /= "none") =>
       (ret' = "false" /\ g'.start = g.start /\ g'.end = g.end)]_vars

\* C21 (amended): such a call returns false and leaves end and pos as they
\* were; the first one moves start to end, so that the range of the last
\* cluster becomes the empty range (N, N), and the later ones change nothing.
C21_PastEndEmptiesRange ==
  [][(PastEnd /\ ret' /= "none") =>
       /\ ret' = "false"
       /\ g'.start = g.end /\ g'.end = g.end /\ g'.pos = g.pos
       /\ g'.end = N
       /\ ret = "false" => g' = g]_vars

C21_Witness ==
  /\ PastEnd /\ ret = "false" /\ N >= 2
  /\ out /= <<>> /\ out[Len(out)].start < g.start

\* C25: after construction and after every sequence of calls of Next() and
\* Reset(), 0 <= start <= end <= N and pos = end + 1, and start and end are
\* indices of the N + 1 elements of indices.
C25_FieldsInRange ==
  /\ 0 <= g.start /\ g.start <= g.end /\ g.end <= N
  /\ g.pos = g.end + 1
  /\ Len(g.indices) = N + 1
  /\ g.start + 1 \in DOMAIN g.indices /\ g.end + 1 \in DOMAIN g.indices

C25_Witness ==
  /\ ret = "true" /\ resetAt = "mid"
  /\ 0 < g.start /\ g.start < g.end /\ g.end < N

\* ================================================ claims: one lookup
\* C22: for every state and every property class transitionGraphemeState
\* returns what the query documented on grTransitions gives: the specific
\* entry; else, with {state, prAny} and {grAny, property} both found, the
\* state of the latter and the instruction of the one with the lower rule
\* number, the latter's when they are equal; else the one of the two that
\* is found; else grAny and a boundary. The state returned is one of the 11
\* states.
C22_LookupIsDocumentedQuery ==
  tr.applied =>
    /\ <<tr.newState, tr.boundary>> = DocumentedQuery(tr.state, property(tr.r))
    /\ tr.newState \in States
    /\ tr.boundary \in BOOLEAN

C22_Witness ==
  /\ tr.applied /\ tr.branch = "both"
  /\ tr.state = grPrepend /\ tr.newState = grRIOdd /\ ~tr.boundary

Joining == {prExtend, prZWJ, prSpacingMark}
Controls == {prCR, prLF, prControl}

\* C23: in every state, no boundary is reported before a code point of the
\* class Extend, ZWJ or SpacingMark.
C23_JoiningNeverBreaks ==
  (tr.applied /\ property(tr.r) \in Joining) => ~tr.boundary

\* C23 (amended): before a code point of the class Extend, ZWJ or
\* SpacingMark a boundary is reported in the states grCR and grControlLF
\* (GB4) and in no other state.
C23_JoiningBreaksAfterControl ==
  (tr.applied /\ property(tr.r) \in Joining) =>
    (tr.boundary <=> tr.state \in {grCR, grControlLF})

C23_Witness ==
  /\ tr.applied /\ property(tr.r) = prSpacingMark
  /\ tr.state = grExtendedPictographicZWJ /\ ~tr.boundary

\* C24: in the state grPrepend no boundary is reported, whatever the class
\* of the next code point.
C24_PrependNeverBreaks ==
  (tr.applied /\ tr.state = grPrepend) => ~tr.boundary

\* C24 (amended): in the state grPrepend a boundary is reported before a
\* code point of the class CR, LF or Control (GB5) and before no other.
C24_PrependBreaksBeforeControl ==
  (tr.applied /\ tr.state = grPrepend) =>
    (tr.boundary <=> property(tr.r) \in Controls)

C24_Witness ==
  /\ tr.applied /\ tr.state = grPrepend
  /\ property(tr.r) = prExtendedPictographic /\ ~tr.boundary
  /\ tr.newState = grExtendedPictographic

\* C26: {grAny, property} is in the table for every property class but
\* prAny; no lookup returns through the branch for {state, prAny} alone, and
\* a lookup returns grAny and a boundary for want of any entry only when the
\* class of the code point is prAny.
C26_StateOnlyBranchUnused ==
  /\ \A p \in Properties \ {prAny} : <<grAny, p>> \in DOMAIN grTransitions
  /\ tr.applied =>
       /\ tr.branch /= "anyProp"
       /\ tr.branch = "none" => property(tr.r) = prAny

C26_Witness ==
  /\ tr.applied /\ tr.branch = "none" /\ tr.state = grRIEven
  /\ tr.r = RuneError

====
